---- MODULE Spec2Model ----
(***************************************************************************)
(* Model of generate_migration.py: the generator of the SQL migration that *)
(* configures timeseries maintenance.  Text is modelled as a sequence of   *)
(* code points, each a one-character string; the two code points outside   *)
(* ASCII that the model uses are written by their Unicode names.           *)
(***************************************************************************)
EXTENDS Naturals, Integers, Sequences, FiniteSets

(***************************************************************************)
(* Bounds of the model.                                                    *)
(***************************************************************************)
MaxFiles == 2

MaxEntries == 2

MaxRecords == 3

MaxNameLen == 3

MaxPieces == 3

(***************************************************************************)
(* Program text constants.                                                 *)
(***************************************************************************)
NL == "\n"

\* line 14: the initial value of output_code
Header ==
    <<"-", "-", " ", "G", "e", "n", "e", "r", "a", "t", "e", "d", " ", "S",
      "Q", "L", " ", "c", "o", "d", "e", " ", "f", "o", "r", " ", "c", "o",
      "n", "f", "i", "g", "u", "r", "i", "n", "g", " ", "t", "i", "m", "e",
      "s", "e", "r", "i", "e", "s", " ", "m", "a", "i", "n", "t", "e", "n",
      "a", "n", "c", "e", "\n", "\n">>

\* line 32: the placeholder "{table_name}"
Token ==
    <<"{", "t", "a", "b", "l", "e", "_", "n", "a", "m", "e", "}">>

\* line 27: the arguments of replace(".", "_")
Dot == <<".">>

Underscore == <<"_">>

(***************************************************************************)
(* Python's str.lower(), code point by code point.  LATIN CAPITAL LETTER I *)
(* WITH DOT ABOVE (U+0130) is the one code point whose lower-case form is  *)
(* two code points: "i" followed by COMBINING DOT ABOVE (U+0307).          *)
(***************************************************************************)
UpperAscii ==
    <<"A", "B", "C", "D", "E", "F", "G", "H", "I", "J", "K", "L", "M", "N",
      "O", "P", "Q", "R", "S", "T", "U", "V", "W", "X", "Y", "Z">>

LowerAscii ==
    <<"a", "b", "c", "d", "e", "f", "g", "h", "i", "j", "k", "l", "m", "n",
      "o", "p", "q", "r", "s", "t", "u", "v", "w", "x", "y", "z">>

CapitalIDotAbove == "U+0130"

CombiningDotAbove == "U+0307"

IsUpperAscii(c) == \E k \in 1..Len(UpperAscii) : UpperAscii[k] = c

LowerChar(c) ==
    IF IsUpperAscii(c)
    THEN <<LowerAscii[CHOOSE k \in 1..Len(UpperAscii) : UpperAscii[k] = c]>>
    ELSE IF c = CapitalIDotAbove THEN <<"i", CombiningDotAbove>>
    ELSE <<c>>

RECURSIVE Lower(_)
Lower(s) ==
    IF s = <<>> THEN <<>> ELSE LowerChar(Head(s)) \o Lower(Tail(s))

(***************************************************************************)
(* Python's str.replace(old, new) for a non-empty old: the occurrences of  *)
(* old are found from left to right in the original text, without overlap, *)
(* and the text put in their place is not searched again.                  *)
(***************************************************************************)
RECURSIVE Replace(_, _, _)
Replace(s, old, new) ==
    IF Len(s) < Len(old) THEN s
    ELSE IF SubSeq(s, 1, Len(old)) = old
         THEN new \o Replace(SubSeq(s, Len(old) + 1, Len(s)), old, new)
         ELSE <<Head(s)>> \o Replace(Tail(s), old, new)

\* a variant of Derive that forgets .lower()
Derive_NoLower(name) == Replace(name, Dot, Underscore)

\* line 27: entry["ProtoDefName"].replace(".", "_").lower()
Derive(name) == Lower(Replace(name, Dot, Underscore))

\* a variant of Expand that substitutes again in its own result
Expand_Rescans(template, name) ==
    Replace(Replace(template, Token, name), Token, name)

\* line 32: sql_template.replace("{table_name}", table_name)
Expand(template, name) == Replace(template, Token, name)

(***************************************************************************)
(* The file system the program reads and writes, and the program's state.  *)
(***************************************************************************)
VARIABLES
    template_file,   \* the file at sql_template_path: [exists, content]
    manifests,       \* the directory manifests_dir: [exists, files], the files
                     \* in the order os.listdir returns them
    disk,            \* V4__configure_timeseries_maintenance.sql: [exists, content]
    pc,              \* the position of the process
    sql_template,    \* line 17
    table_names,     \* line 22
    output_code,     \* line 14
    file_idx,        \* the position of the loop of line 23
    name_idx,        \* the position of the loop of line 31
    stage,           \* the stage whose failure ended the run, or "none"
    prev_disk,       \* the output file as it was when the process started
    lastGood,        \* what the latest successful run wrote: [exists, content]
    prevGood,        \* what the successful run before that one wrote
    proto_def_name,  \* line 27: entry["ProtoDefName"]
    table_name,      \* line 27
    block            \* line 32: the expansion of the template for table_name

vars ==
    <<template_file, manifests, disk, pc, sql_template, table_names,
      output_code, file_idx, name_idx, stage, prev_disk, lastGood, prevGood,
      proto_def_name, table_name, block>>

env == <<template_file, manifests>>

history == <<lastGood, prevGood>>

unit == <<proto_def_name, table_name, block>>

NoFile == [exists |-> FALSE, content |-> <<>>]

File(text) == [exists |-> TRUE, content |-> text]

(***************************************************************************)
(* The inputs the model draws from.                                        *)
(***************************************************************************)
SeqsUpTo(S, n) == UNION {[1..k -> S] : k \in 0..n}

SelectTemplate ==
    <<"S", "E", "L", "E", "C", "T", " ", "'", "{", "t", "a", "b", "l", "e",
      "_", "n", "a", "m", "e", "}", "'", " ", "A", "S", " ", "t", ";">>

Templates == {SelectTemplate, SelectTemplate \o <<NL>>}

TemplateFiles == {NoFile} \cup {File(t) : t \in Templates}

ProtoDefNames == {<<"a", ".", "B">>, <<"C", ".", "d">>}

\* a record of a manifest: an object with or without the key "ProtoDefName"
Records ==
    {[has |-> TRUE, ProtoDefName |-> n] : n \in ProtoDefNames}
        \cup {[has |-> FALSE, ProtoDefName |-> <<>>]}

\* a manifest file, by what json.load returns for it: nothing (the text is no
\* JSON), a number, the object {} (a dict with no key), an object with keys, or
\* an array of records
ManifestFiles ==
    {[kind |-> k, entries |-> <<>>] :
        k \in {"unparseable", "number", "emptyobject", "object"}}
        \cup {[kind |-> "array", entries |-> es] : es \in SeqsUpTo(Records, MaxEntries)}

RECURSIVE TotalRecords(_)
TotalRecords(files) ==
    IF files = <<>> THEN 0
    ELSE Len(Head(files).entries) + TotalRecords(Tail(files))

ManifestDirs ==
    {[exists |-> FALSE, files |-> <<>>]}
        \cup {[exists |-> TRUE, files |-> fs] :
                fs \in {x \in SeqsUpTo(ManifestFiles, MaxFiles) :
                            TotalRecords(x) <= MaxRecords}}

OldOutput ==
    Header \o Expand(SelectTemplate, <<"o", "l", "d">>) \o <<NL, NL>>

OutputFiles == {NoFile, File(OldOutput)}

(***************************************************************************)
(* generate_migration, lines 10-35.                                        *)
(***************************************************************************)
Idle ==
    /\ sql_template = <<>>
    /\ table_names = <<>>
    /\ output_code = <<>>
    /\ file_idx = 0
    /\ name_idx = 0

Init ==
    /\ template_file \in TemplateFiles
    /\ manifests \in ManifestDirs
    /\ disk \in OutputFiles
    /\ pc = "start"
    /\ Idle
    /\ stage = "none"
    /\ prev_disk = disk
    /\ lastGood = NoFile
    /\ prevGood = NoFile
    /\ proto_def_name = <<>>
    /\ table_name = <<>>
    /\ block = <<>>

\* an exception leaves generate_migration and ends the process
Abort(st) ==
    /\ pc' = "failed"
    /\ stage' = st
    /\ sql_template' = <<>>
    /\ table_names' = <<>>
    /\ output_code' = <<>>
    /\ file_idx' = 0
    /\ name_idx' = 0
    /\ UNCHANGED <<env, prev_disk, history, unit>>

\* a variant of LoadTemplate that opens the output file before the other stages
LoadTemplate_OpensOutput ==
    /\ pc = "start"
    /\ template_file.exists
    /\ disk' = File(<<>>)
    /\ output_code' = Header
    /\ sql_template' = template_file.content
    /\ pc' = "listdir"
    /\ UNCHANGED <<env, table_names, file_idx, name_idx, stage, prev_disk,
                   history, unit>>

\* a variant of LoadTemplate that starts from what the output file holds
LoadTemplate_ResumesOutput ==
    /\ pc = "start"
    /\ template_file.exists
    /\ output_code' = IF disk.exists THEN disk.content ELSE Header
    /\ sql_template' = template_file.content
    /\ pc' = "listdir"
    /\ UNCHANGED <<env, disk, table_names, file_idx, name_idx, stage,
                   prev_disk, history, unit>>

\* lines 14-19: the header, then the template is read
LoadTemplate ==
    /\ pc = "start"
    /\ template_file.exists
    /\ output_code' = Header
    /\ sql_template' = template_file.content
    /\ pc' = "listdir"
    /\ UNCHANGED <<env, disk, table_names, file_idx, name_idx, stage,
                   prev_disk, history, unit>>

\* line 18: open() raises when the template is missing or unreadable
LoadTemplateFail ==
    /\ pc = "start"
    /\ ~template_file.exists
    /\ Abort("loader")
    /\ UNCHANGED disk

\* the position after the loop of line 23 has taken file number i - 1
AfterFile(i) == IF i <= Len(manifests.files) THEN "scan" ELSE "expand"

\* lines 22-23: table_names = [], os.listdir(manifests_dir); the loop of line 31
\* starts at the first table name as soon as the last file is done
ListManifests ==
    /\ pc = "listdir"
    /\ manifests.exists
    /\ table_names' = <<>>
    /\ file_idx' = 1
    /\ name_idx' = 1
    /\ pc' = AfterFile(1)
    /\ UNCHANGED <<env, disk, sql_template, output_code, stage, prev_disk,
                   history, unit>>

\* line 23: os.listdir raises when the directory is missing
ListManifestsFail ==
    /\ pc = "listdir"
    /\ ~manifests.exists
    /\ Abort("scanner")
    /\ UNCHANGED disk

\* line 25 parses the file, line 26 iterates over the value (a number has no
\* iterator; a dict yields its keys, strings that line 27 cannot index by a
\* string; {} yields nothing) and line 27 finds the key in every record
Readable(f) ==
    /\ f.kind \in {"emptyobject", "array"}
    /\ \A i \in 1..Len(f.entries) : f.entries[i].has

\* lines 26-28 for one file: the table names of its records, in array order
NamesOf(f) == [i \in 1..Len(f.entries) |-> Derive(f.entries[i].ProtoDefName)]

\* the names of ns that are not in seen, each once
RECURSIVE Fresh(_, _)
Fresh(ns, seen) ==
    IF ns = <<>> THEN <<>>
    ELSE IF \E i \in 1..Len(seen) : seen[i] = Head(ns)
         THEN Fresh(Tail(ns), seen)
         ELSE <<Head(ns)>> \o Fresh(Tail(ns), seen \o <<Head(ns)>>)

\* a variant of ScanFile that drops a table name it already has
ScanFile_Dedups ==
    /\ pc = "scan"
    /\ Readable(manifests.files[file_idx])
    /\ table_names' =
           table_names \o Fresh(NamesOf(manifests.files[file_idx]), table_names)
    /\ file_idx' = file_idx + 1
    /\ pc' = AfterFile(file_idx + 1)
    /\ UNCHANGED <<env, disk, sql_template, output_code, name_idx, stage,
                   prev_disk, history, unit>>

\* a variant of ScanFile that puts the names of a file before the earlier ones
ScanFile_Prepends ==
    /\ pc = "scan"
    /\ Readable(manifests.files[file_idx])
    /\ table_names' = NamesOf(manifests.files[file_idx]) \o table_names
    /\ file_idx' = file_idx + 1
    /\ pc' = AfterFile(file_idx + 1)
    /\ UNCHANGED <<env, disk, sql_template, output_code, name_idx, stage,
                   prev_disk, history, unit>>

\* a variant of ScanFile that passes over a file it cannot read
ScanFile_SkipsUnreadable ==
    /\ pc = "scan"
    /\ table_names' =
           IF Readable(manifests.files[file_idx])
           THEN table_names \o NamesOf(manifests.files[file_idx])
           ELSE table_names
    /\ file_idx' = file_idx + 1
    /\ pc' = AfterFile(file_idx + 1)
    /\ UNCHANGED <<env, disk, sql_template, output_code, name_idx, stage,
                   prev_disk, history, unit>>

\* lines 24-28: one turn of the loop over the files
ScanFile ==
    /\ pc = "scan"
    /\ Readable(manifests.files[file_idx])
    /\ table_names' = table_names \o NamesOf(manifests.files[file_idx])
    /\ file_idx' = file_idx + 1
    /\ pc' = AfterFile(file_idx + 1)
    /\ UNCHANGED <<env, disk, sql_template, output_code, name_idx, stage,
                   prev_disk, history, unit>>

\* line 25: json.load raises; line 26: TypeError; line 27: KeyError, TypeError
ScanFileFail ==
    /\ pc = "scan"
    /\ ~Readable(manifests.files[file_idx])
    /\ Abort("scanner")
    /\ UNCHANGED disk

\* a variant of ExpandNext that forgets the "\n" after the block
ExpandNext_NoNewline ==
    /\ pc = "expand"
    /\ name_idx <= Len(table_names)
    /\ output_code' =
           output_code \o Expand(sql_template, table_names[name_idx])
    /\ name_idx' = name_idx + 1
    /\ UNCHANGED <<env, disk, pc, sql_template, table_names, file_idx, stage,
                   prev_disk, history, unit>>

\* lines 31-32: one turn of the loop over the table names
ExpandNext ==
    /\ pc = "expand"
    /\ name_idx <= Len(table_names)
    /\ output_code' =
           output_code \o Expand(sql_template, table_names[name_idx]) \o <<NL>>
    /\ name_idx' = name_idx + 1
    /\ UNCHANGED <<env, disk, pc, sql_template, table_names, file_idx, stage,
                   prev_disk, history, unit>>

\* a variant of OpenOutput that opens in append mode: no truncation
OpenOutput_Appends ==
    /\ pc = "expand"
    /\ name_idx > Len(table_names)
    /\ disk' = IF disk.exists THEN disk ELSE File(<<>>)
    /\ pc' = "write"
    /\ UNCHANGED <<env, sql_template, table_names, output_code, file_idx,
                   name_idx, stage, prev_disk, history, unit>>

\* line 34: open(..., 'w') creates the file or truncates it to length zero
OpenOutput ==
    /\ pc = "expand"
    /\ name_idx > Len(table_names)
    /\ disk' = File(<<>>)
    /\ pc' = "write"
    /\ UNCHANGED <<env, sql_template, table_names, output_code, file_idx,
                   name_idx, stage, prev_disk, history, unit>>

\* line 34: open() raises when the output path is not writable
OpenOutputFail ==
    /\ pc = "expand"
    /\ name_idx > Len(table_names)
    /\ Abort("writer")
    /\ UNCHANGED disk

\* line 35: file.write(output_code) at the position of the open file, its end
WriteBuffer ==
    /\ pc = "write"
    /\ disk' = File(disk.content \o output_code)
    /\ pc' = "done"
    /\ prevGood' = lastGood
    /\ lastGood' = File(disk.content \o output_code)
    /\ UNCHANGED <<env, sql_template, table_names, output_code, file_idx,
                   name_idx, stage, prev_disk, unit>>

\* the process is killed while it runs
Interrupt ==
    /\ pc \in {"start", "listdir", "scan", "expand", "write"}
    /\ Abort("interrupt")
    /\ UNCHANGED disk

\* line 37: the script is run again; nothing in memory outlives a process
Invoke ==
    /\ pc \in {"done", "failed"}
    /\ pc' = "start"
    /\ stage' = "none"
    /\ prev_disk' = disk
    /\ sql_template' = <<>>
    /\ table_names' = <<>>
    /\ output_code' = <<>>
    /\ file_idx' = 0
    /\ name_idx' = 0
    /\ UNCHANGED <<env, disk, history, unit>>

Next ==
    \/ LoadTemplate
    \/ LoadTemplateFail
    \/ ListManifests
    \/ ListManifestsFail
    \/ ScanFile
    \/ ScanFileFail
    \/ ExpandNext
    \/ OpenOutput
    \/ OpenOutputFail
    \/ WriteBuffer
    \/ Interrupt
    \/ Invoke

Spec == Init /\ [][Next]_vars

(***************************************************************************)
(* Line 27 alone: the derivation of a table name, on names over a small    *)
(* alphabet and on the name "foo.Bar.Baz".                                 *)
(***************************************************************************)
NameAlphabet == {"a", "B", ".", "_", "$", CapitalIDotAbove}

fooBarBaz == <<"f", "o", "o", ".", "B", "a", "r", ".", "B", "a", "z">>

DeriveInputs == SeqsUpTo(NameAlphabet, MaxNameLen) \cup {fooBarBaz}

\* no run of the pipeline: the function is applied to its arguments alone
NoProcess ==
    /\ template_file = NoFile
    /\ manifests = [exists |-> FALSE, files |-> <<>>]
    /\ disk = NoFile
    /\ table_names = <<>>
    /\ output_code = <<>>
    /\ file_idx = 0
    /\ name_idx = 0
    /\ stage = "none"
    /\ prev_disk = NoFile
    /\ lastGood = NoFile
    /\ prevGood = NoFile

InitDerive ==
    /\ NoProcess
    /\ pc = "derive"
    /\ sql_template = <<>>
    /\ proto_def_name \in DeriveInputs
    /\ table_name = <<>>
    /\ block = <<>>

\* line 27
DeriveStep ==
    /\ pc = "derive"
    /\ table_name' = Derive(proto_def_name)
    /\ pc' = "derived"
    /\ UNCHANGED <<env, disk, sql_template, table_names, output_code, file_idx,
                   name_idx, stage, prev_disk, history, proto_def_name, block>>

NextDerive == DeriveStep

SpecDerive == InitDerive /\ [][NextDerive]_vars

(***************************************************************************)
(* Lines 27 and 32 alone: the expansion of a template for one record, on   *)
(* templates put together from pieces that hold the token, halves of the   *)
(* token and other text.                                                   *)
(***************************************************************************)
Pieces ==
    {Token, <<"x">>, <<NL>>, <<"{", "t", "a", "b", "l", "e">>,
     <<"_", "n", "a", "m", "e", "}">>}

RECURSIVE Flatten(_)
Flatten(ps) == IF ps = <<>> THEN <<>> ELSE Head(ps) \o Flatten(Tail(ps))

ExpandTemplates == {Flatten(ps) : ps \in SeqsUpTo(Pieces, MaxPieces)}

ExpandInputs ==
    {<<>>, <<"a", ".", "B">>,
     <<"A", "{", "T", "A", "B", "L", "E", "_", "N", "A", "M", "E", "}">>}

InitExpand ==
    /\ NoProcess
    /\ pc = "expand one"
    /\ sql_template \in ExpandTemplates
    /\ proto_def_name \in ExpandInputs
    /\ table_name = <<>>
    /\ block = <<>>

\* lines 27 and 32 for one record
ExpandStep ==
    /\ pc = "expand one"
    /\ table_name' = Derive(proto_def_name)
    /\ block' = Expand(sql_template, Derive(proto_def_name))
    /\ pc' = "expanded"
    /\ UNCHANGED <<env, disk, sql_template, table_names, output_code, file_idx,
                   name_idx, stage, prev_disk, history, proto_def_name>>

NextExpand == ExpandStep

SpecExpand == InitExpand /\ [][NextExpand]_vars

(***************************************************************************)
(* What the properties speak of.                                           *)
(***************************************************************************)
RECURSIVE AllRecords(_)
AllRecords(files) ==
    IF files = <<>> THEN <<>> ELSE Head(files).entries \o AllRecords(Tail(files))

\* the records of the directory, by listing order and then by array position
Recs == AllRecords(manifests.files)

\* the number of places where w occurs in s
CountOcc(s, w) ==
    Cardinality({i \in 1..(Len(s) - Len(w) + 1) : SubSeq(s, i, i + Len(w) - 1) = w})

\* the number of elements of the sequence s that equal x
CountOf(s, x) == Cardinality({i \in 1..Len(s) : s[i] = x})

Rec(n) == [has |-> TRUE, ProtoDefName |-> n]

\* text that occurs once in every template of Templates and in no table name
BlockMark == <<"S", "E", "L", "E", "C", "T">>

SelAB ==
    <<"S", "E", "L", "E", "C", "T", " ", "'", "a", "_", "b", "'", " ", "A",
      "S", " ", "t", ";">>

SelCD ==
    <<"S", "E", "L", "E", "C", "T", " ", "'", "c", "_", "d", "'", " ", "A",
      "S", " ", "t", ";">>

\* one manifest file holding [{"ProtoDefName":"a.B"},{"ProtoDefName":"C.d"}]
ScenarioManifests ==
    /\ manifests.exists
    /\ manifests.files =
           <<[kind |-> "array",
              entries |-> <<Rec(<<"a", ".", "B">>), Rec(<<"C", ".", "d">>)>>]>>

\* some file of the directory cannot be read as a list of records with names
SomeUnreadable ==
    /\ manifests.exists
    /\ \E i \in 1..Len(manifests.files) : ~Readable(manifests.files[i])

\* some file of the directory holds something else than a JSON array of
\* objects that all have the key
SomeNotArrayOfNamed ==
    /\ manifests.exists
    /\ \E i \in 1..Len(manifests.files) :
          \/ manifests.files[i].kind # "array"
          \/ \E j \in 1..Len(manifests.files[i].entries) :
                ~manifests.files[i].entries[j].has

(***************************************************************************)
(* C1: a run that fails in the Template Loader or in the Manifest Scanner  *)
(* leaves the output file as it was before the run: not created, not       *)
(* modified.                                                               *)
(***************************************************************************)
C1_FailedRunKeepsOutput ==
    (pc = "failed" /\ stage \in {"loader", "scanner"}) => disk = prev_disk

\* the scanner fails on the second file of a directory whose first file was
\* read, and the output file of an earlier time is still there
C1_Witness ==
    /\ pc = "failed"
    /\ stage = "scanner"
    /\ Len(manifests.files) = 2
    /\ Readable(manifests.files[1])
    /\ manifests.files[2].kind = "unparseable"
    /\ disk = File(OldOutput)

(***************************************************************************)
(* C2 as stated: after a successful run the output file is the header      *)
(* line, a blank line, and each expanded block in order with a blank line  *)
(* after it, whether or not the template ends with a newline; the template *)
(* SELECT '{table_name}' AS t; with the entries a.B and C.d gives header,  *)
(* blank line, SELECT 'a_b' AS t;, blank line, SELECT 'c_d' AS t;, blank   *)
(* line.                                                                   *)
(***************************************************************************)
\* the lines of a block: the block, ended by a newline if it has none
AsLines(b) == IF b # <<>> /\ b[Len(b)] = NL THEN b ELSE b \o <<NL>>

RECURSIVE BlocksWithBlankLines(_, _)
BlocksWithBlankLines(template, names) ==
    IF names = <<>> THEN <<>>
    ELSE AsLines(Expand(template, Head(names))) \o <<NL>>
             \o BlocksWithBlankLines(template, Tail(names))

C2_BlankLineAfterEachBlock ==
    pc = "done" =>
        /\ disk.content = Header \o BlocksWithBlankLines(sql_template, table_names)
        /\ (ScenarioManifests /\ sql_template = SelectTemplate) =>
               disk.content = Header \o SelAB \o <<NL, NL>> \o SelCD \o <<NL, NL>>

(***************************************************************************)
(* C2 as amended: after a successful run the output file is the header     *)
(* line, a blank line, and each expanded block in order with one newline   *)
(* character after it, so that a blank line follows a block only when the  *)
(* template ends with a newline; the scenario's output has its blank lines *)
(* for the template SELECT '{table_name}' AS t; followed by a newline, and *)
(* has none between or after the blocks for the template without it.       *)
(***************************************************************************)
RECURSIVE BlocksWithNewline(_, _)
BlocksWithNewline(template, names) ==
    IF names = <<>> THEN <<>>
    ELSE Expand(template, Head(names)) \o <<NL>>
             \o BlocksWithNewline(template, Tail(names))

C2_NewlineAfterEachBlock ==
    pc = "done" =>
        /\ disk.content = Header \o BlocksWithNewline(sql_template, table_names)
        /\ (ScenarioManifests /\ sql_template = SelectTemplate \o <<NL>>) =>
               disk.content = Header \o SelAB \o <<NL, NL>> \o SelCD \o <<NL, NL>>
        /\ (ScenarioManifests /\ sql_template = SelectTemplate) =>
               disk.content = Header \o SelAB \o <<NL>> \o SelCD \o <<NL>>

\* the scenario has run with the template that has no newline at its end
C2_Witness ==
    /\ pc = "done"
    /\ ScenarioManifests
    /\ template_file = File(SelectTemplate)
    /\ Len(table_names) = 2

(***************************************************************************)
(* C3: a successful run over N records, each with a ProtoDefName, gathers  *)
(* N table names and writes N blocks: a name that k records have occurs k  *)
(* times, nothing is dropped or deduplicated, and with N = 0 the file      *)
(* holds the header only.                                                  *)
(***************************************************************************)
C3_CountProperty ==
    pc = "done" =>
        /\ Len(table_names) = Len(Recs)
        /\ \A n \in ProtoDefNames :
              CountOf(table_names, Derive(n)) = CountOf(Recs, Rec(n))
        /\ CountOcc(disk.content, BlockMark) = Len(Recs)
        /\ \A n \in ProtoDefNames :
              CountOcc(disk.content, Expand(sql_template, Derive(n)) \o <<NL>>)
                  = CountOf(Recs, Rec(n))
        /\ Len(Recs) = 0 => disk.content = Header

\* a name occurs twice in one file and once more in another file
C3_Witness ==
    /\ pc = "done"
    /\ Len(manifests.files) = 2
    /\ Len(manifests.files[1].entries) = 2
    /\ Len(manifests.files[2].entries) = 1
    /\ CountOf(Recs, Rec(<<"a", ".", "B">>)) = 3

(***************************************************************************)
(* C4: the i-th block of the output file is the expansion of the i-th      *)
(* record, the records taken by the listing order of their files and then  *)
(* by their position in the file's array; nothing is sorted, reordered or  *)
(* interleaved.                                                            *)
(***************************************************************************)
\* the expansion of record i for the template on disk
BlockOf(i) == Expand(template_file.content, Derive(Recs[i].ProtoDefName))

\* the number of characters of the output before block i
RECURSIVE Offset(_)
Offset(i) ==
    IF i = 1 THEN Len(Header) ELSE Offset(i - 1) + Len(BlockOf(i - 1)) + 1

C4_OrderPreserved ==
    pc = "done" =>
        /\ table_names = [i \in 1..Len(Recs) |-> Derive(Recs[i].ProtoDefName)]
        /\ \A i \in 1..Len(Recs) :
              SubSeq(disk.content, Offset(i) + 1, Offset(i) + Len(BlockOf(i)))
                  = BlockOf(i)

\* two files, the first listed one holding C.d and the second a.B then C.d
C4_Witness ==
    /\ pc = "done"
    /\ Len(manifests.files) = 2
    /\ manifests.files[1].entries = <<Rec(<<"C", ".", "d">>)>>
    /\ manifests.files[2].entries = <<Rec(<<"a", ".", "B">>), Rec(<<"C", ".", "d">>)>>

(***************************************************************************)
(* C5 as stated: the table name derived from a ProtoDefName s is s with    *)
(* every "." replaced by "_" and then lower-cased, nothing else: it is as  *)
(* long as s, every character other than "." and the upper-case letters is *)
(* kept, and foo.Bar.Baz gives foo_bar_baz.                                *)
(***************************************************************************)
foo_bar_baz == <<"f", "o", "o", "_", "b", "a", "r", "_", "b", "a", "z">>

IsUpper(c) == IsUpperAscii(c) \/ c = CapitalIDotAbove

C5_SameLengthDerivation ==
    pc = "derived" =>
        /\ Len(table_name) = Len(proto_def_name)
        /\ \A i \in 1..Len(proto_def_name) :
              /\ proto_def_name[i] = "." => table_name[i] = "_"
              /\ (proto_def_name[i] # "." /\ ~IsUpper(proto_def_name[i])) =>
                     table_name[i] = proto_def_name[i]
        /\ proto_def_name = fooBarBaz => table_name = foo_bar_baz

(***************************************************************************)
(* C5 as amended: the table name is s with every "." replaced by "_" and   *)
(* then lower-cased, nothing else: every character other than "." and the  *)
(* characters that have another lower-case form is kept, an upper-case     *)
(* ASCII letter becomes its lower-case letter, and the name is as long as  *)
(* s except that each U+0130 (capital I with dot above) of s becomes the   *)
(* two code points "i" and U+0307, which makes the name one longer;        *)
(* foo.Bar.Baz gives foo_bar_baz.                                          *)
(***************************************************************************)
\* the number of U+0130 among the first i - 1 characters of s
DotsBefore(s, i) == Cardinality({j \in 1..(i - 1) : s[j] = CapitalIDotAbove})

C5_Derivation ==
    pc = "derived" =>
        /\ Len(table_name) =
               Len(proto_def_name) + DotsBefore(proto_def_name, Len(proto_def_name) + 1)
        /\ \A i \in 1..Len(proto_def_name) :
              LET c == proto_def_name[i]
                  p == i + DotsBefore(proto_def_name, i)
              IN  /\ c = "." => table_name[p] = "_"
                  /\ c = CapitalIDotAbove =>
                         table_name[p] = "i" /\ table_name[p + 1] = CombiningDotAbove
                  /\ IsUpperAscii(c) =>
                         \E k \in 1..Len(UpperAscii) :
                             UpperAscii[k] = c /\ table_name[p] = LowerAscii[k]
                  /\ (c # "." /\ ~IsUpper(c)) => table_name[p] = c
        /\ proto_def_name = fooBarBaz => table_name = foo_bar_baz

\* a name with an upper-case letter, a dot and a U+0130, derived
C5_Witness ==
    /\ pc = "derived"
    /\ proto_def_name = <<"B", CapitalIDotAbove, ".">>
    /\ table_name = <<"b", "i", CombiningDotAbove, "_">>

(***************************************************************************)
(* C6: the expansion is one pass of literal replacement: the block is the  *)
(* template with every occurrence of {table_name} that the template itself *)
(* holds replaced by the table name and no other character altered; what   *)
(* the table name brings in is not searched again, so a table name that    *)
(* holds {table_name} stands in the block as it is; a template without the *)
(* token is copied unchanged.                                              *)
(***************************************************************************)
\* the places of the template where the token stands
Occ(template) ==
    {i \in 1..(Len(template) - Len(Token) + 1) :
        SubSeq(template, i, i + Len(Token) - 1) = Token}

\* the number of occurrences of the token that start before place i
OccBefore(template, i) == Cardinality({j \in Occ(template) : j < i})

\* place i of the template lies within an occurrence of the token
InToken(template, i) ==
    \E j \in Occ(template) : j <= i /\ i < j + Len(Token)

C6_SinglePassExpansion ==
    pc = "expanded" =>
        LET grow == Len(table_name) - Len(Token)
            at(i) == i + OccBefore(sql_template, i) * grow
        IN  /\ Len(block) = Len(sql_template) + Cardinality(Occ(sql_template)) * grow
            /\ \A i \in 1..Len(sql_template) :
                  ~InToken(sql_template, i) => block[at(i)] = sql_template[i]
            /\ \A j \in Occ(sql_template) :
                  SubSeq(block, at(j), at(j) + Len(table_name) - 1) = table_name
            /\ Occ(sql_template) = {} => block = sql_template

\* a template with the token twice, expanded for the table name of the
\* ProtoDefName A{TABLE_NAME}, which holds the token
C6_Witness ==
    /\ pc = "expanded"
    /\ Cardinality(Occ(sql_template)) = 2
    /\ table_name = <<"a">> \o Token
    /\ CountOcc(block, table_name) = 2

(***************************************************************************)
(* C7 as stated: a malformed manifest is never accepted or skipped: when   *)
(* a file of the directory does not hold a JSON array of objects, or a     *)
(* record lacks ProtoDefName, the run ends in an error and never in        *)
(* success, and the records read before do not produce output.             *)
(***************************************************************************)
C7_NonArrayNeverAccepted ==
    SomeNotArrayOfNamed =>
        /\ pc \notin {"write", "done"}
        /\ disk = prev_disk

(***************************************************************************)
(* C7 as amended: when a file of the directory is not valid JSON, or holds *)
(* a JSON value other than an array that the loop cannot take records from *)
(* (a number, an object with keys), or a record of an array lacks          *)
(* ProtoDefName, the run ends in an error and never in success, and the    *)
(* records read before do not produce output; a file that holds the empty  *)
(* object {} is not an array and yet is accepted as a file of no records.  *)
(***************************************************************************)
C7_UnreadableNeverAccepted ==
    /\ SomeUnreadable =>
          /\ pc \notin {"write", "done"}
          /\ disk = prev_disk
          /\ lastGood = NoFile
    /\ (pc = "scan" /\ manifests.files[file_idx].kind = "emptyobject") =>
          ENABLED ScanFile

\* the first file gave a table name, the second has a record without the key,
\* and the run has failed in the scanner
C7_Witness ==
    /\ pc = "failed"
    /\ stage = "scanner"
    /\ Len(manifests.files) = 2
    /\ manifests.files[1].entries = <<Rec(<<"a", ".", "B">>)>>
    /\ Len(manifests.files[2].entries) = 2
    /\ manifests.files[2].entries[1].has
    /\ ~manifests.files[2].entries[2].has

(***************************************************************************)
(* C8: two successful runs with the same manifest directory and the same   *)
(* template write the same bytes, whatever the output file held before the *)
(* second run and whatever happened in between.                            *)
(***************************************************************************)
C8_Idempotent ==
    (pc = "done" /\ prevGood.exists) => disk.content = prevGood.content

\* a second success, the output file having been left truncated by a killed
\* run or replaced since the first one
C8_Witness ==
    /\ pc = "done"
    /\ prevGood.exists
    /\ prev_disk # disk
    /\ Len(table_names) = 2

(***************************************************************************)
(* C9: when the output file exists before a successful run, with any       *)
(* content, also a longer one, it holds the new buffer alone afterwards:   *)
(* nothing appended to the old content, no byte of it left.                *)
(***************************************************************************)
C9_Overwrite ==
    pc = "done" => disk = File(output_code)

\* the old content was longer than the output of the run
C9_Witness ==
    /\ pc = "done"
    /\ prev_disk = File(OldOutput)
    /\ Len(prev_disk.content) > Len(disk.content)
    /\ Len(table_names) = 1

(***************************************************************************)
(* C10: a run that is interrupted or fails at any point, also between the  *)
(* opening of the output file and the end of the write, leaves the output  *)
(* file as it was; the file is never empty, truncated or partial.          *)
(***************************************************************************)
C10_AllOrNothing ==
    pc = "failed" => disk = prev_disk

====
